---- MODULE Spec2Model ----
(***************************************************************************)
(* One run of the dashboard script app.py: upload, CSV load, the call of   *)
(* the scoring pipeline, the ranked table, the top-15 chart, the path      *)
(* selector and the process-graph build and render.                        *)
(*                                                                         *)
(* A path is a Python str, modelled as a sequence of characters; the       *)
(* character U+2192 of the delimiter is written Arrow.  A results          *)
(* DataFrame is its set of columns and its sequence of rows, every row     *)
(* carrying its index label.                                               *)
(***************************************************************************)
EXTENDS Integers, Sequences, FiniteSets, TLC

\* ------------------------------------------------------------- bounds
MaxRows == 3      \* rows of an exhaustively enumerated result table
MaxScore == 1     \* threat scores are 0..MaxScore
MaxTokens == 3    \* segments of an enumerated path string

\* ---------------------------------------------------- program constants
TableN == 50      \* .head(50) of the ranked table
ChartN == 15      \* .head(15) of the chart

Arrow == "U+2192"
Delim == <<" ", Arrow, " ">>

\* Python's None, as the selectbox returns it for an empty option list.
None == <<"None">>

\* ------------------------------------------------------------ helpers
head(s, n) == SubSeq(s, 1, IF Len(s) < n THEN Len(s) ELSE n)

Range(s) == {s[k] : k \in 1..Len(s)}

\* str.strip(), used by no line of app.py: the string without its leading and
\* trailing whitespace.
RECURSIVE strip(_)
strip(s) ==
    IF s = <<>> THEN s
    ELSE IF s[1] = " " THEN strip(Tail(s))
    ELSE IF s[Len(s)] = " " THEN strip(SubSeq(s, 1, Len(s) - 1))
    ELSE s

\* str.split(sep): the segments between the non-overlapping occurrences of
\* the separator, found left to right; always at least one segment.
RECURSIVE SplitFrom(_, _, _)
SplitFrom(s, start, k) ==
    IF k + Len(Delim) - 1 > Len(s)
    THEN <<SubSeq(s, start, Len(s))>>
    ELSE IF SubSeq(s, k, k + Len(Delim) - 1) = Delim
         THEN <<SubSeq(s, start, k - 1)>>
                  \o SplitFrom(s, k + Len(Delim), k + Len(Delim))
         ELSE SplitFrom(s, start, k + 1)

SplitTrimmed(s) ==
    LET raw == SplitFrom(s, 1, 1) IN [k \in 1..Len(raw) |-> strip(raw[k])]

Split(s) == SplitFrom(s, 1, 1)

\* DataFrame.sort_values("threat_score", ascending=False) with the default
\* kind="quicksort": descending by score; the order of rows with equal scores
\* is whatever the sort leaves, a fixed function of the input on one build.
\* tie[k] is the place that order gives the row at position k among its equals.
Before(rows, tie, a, b) ==
    \/ rows[a].threat_score > rows[b].threat_score
    \/ rows[a].threat_score = rows[b].threat_score /\ tie[a] < tie[b]

Rank(rows, tie, a) == Cardinality({b \in 1..Len(rows) : Before(rows, tie, b, a)})

SortValuesAscending(rows, tie) ==
    [k \in 1..Len(rows) |->
        rows[CHOOSE a \in 1..Len(rows) : Rank(rows, tie, a) = Len(rows) - k]]

SortValues(rows, tie) ==
    [k \in 1..Len(rows) |->
        rows[CHOOSE a \in 1..Len(rows) : Rank(rows, tie, a) = k - 1]]

\* results.sort_values("threat_score", ascending=False).head(50)
TableRows(rows, tie) == head(SortValues(rows, tie), TableN)

ChartRowsStable(rows, tie) ==
    head(SortValues(rows, [k \in 1..Len(rows) |-> k]), ChartN)

\* results.sort_values("threat_score", ascending=False).head(15)
ChartRows(rows, tie) == head(SortValues(rows, tie), ChartN)

\* The DiGraph keeps its nodes and its edges in dicts: the keys in insertion
\* order, no key twice.
EmptyGraph == [nodes |-> <<>>, edges |-> <<>>]

AddNodeAppend(g, p) == [g EXCEPT !.nodes = Append(@, p)]

\* G.add_node(p): a dict insert, a second insert of the same key keeps it.
AddNode(g, p) ==
    IF p \in Range(g.nodes) THEN g ELSE [g EXCEPT !.nodes = Append(@, p)]

\* G.add_edge(u, v) of a DiGraph: inserts the end nodes that are missing and
\* the ordered pair, unless it is there.
AddEdge(g, u, v) ==
    LET h == AddNode(AddNode(g, u), v)
    IN IF <<u, v>> \in Range(h.edges)
       THEN h
       ELSE [h EXCEPT !.edges = Append(@, <<u, v>>)]

\* ------------------------------------------------------------- inputs
Scores == 0..MaxScore

Str(a) == <<a>>
Join(segs) ==
    LET RECURSIVE J(_)
        J(k) == IF k = 1 THEN segs[1] ELSE J(k - 1) \o Delim \o segs[k]
    IN J(Len(segs))

Segments == {<<>>, <<"A">>, <<"B">>, <<"C">>, <<" ", "B">>, <<" ">>}

PathInputs ==
    UNION {{Join(segs) : segs \in [1..n -> Segments]} : n \in 1..MaxTokens}

RunPaths == {Join(<<Str("A"), Str("B")>>), Str("A")}

Row(cols, k, s, p) ==
    [c \in cols \cup {"index"} |->
        IF c = "index" THEN k ELSE IF c = "threat_score" THEN s ELSE p]

ColumnSets == SUBSET {"path", "threat_score"}

SmallTables ==
    UNION {UNION {
        {[cols |-> cols,
          rows |-> [k \in 1..n |-> Row(cols, k, ss[k], ps[k])]] :
            ss \in [1..n -> IF "threat_score" \in cols THEN Scores ELSE {0}],
            ps \in [1..n -> IF "path" \in cols THEN RunPaths ELSE {None}]}
        : n \in 0..MaxRows} : cols \in ColumnSets}

OnePathTables ==
    {[cols |-> {"path", "threat_score"},
      rows |-> <<Row({"path", "threat_score"}, 1, 0, p)>>] : p \in PathInputs}

LongTables ==
    {[cols |-> {"path", "threat_score"},
      rows |-> [k \in 1..n |->
                  Row({"path", "threat_score"}, k, (k * m) % (MaxScore + 1),
                      Str("A"))]] :
        n \in {ChartN + 1, TableN + 1}, m \in {1, 3}}

ResultSets == SmallTables \cup OnePathTables \cup LongTables

Identity(n) == [k \in 1..n |-> k]
Reversed(n) == [k \in 1..n |-> n + 1 - k]

TieOrders(n) ==
    IF n <= MaxRows
    THEN {t \in [1..n -> 1..n] : \A a, b \in 1..n : a # b => t[a] # t[b]}
    ELSE {Identity(n), Reversed(n)}

\* -------------------------------------------------------------- state
VARIABLES
    pc,             \* position of the script run
    uploaded_file,  \* "none", "valid" (parses as CSV) or "invalid"
    analyzed,       \* analyze_paths has been called
    results,        \* the DataFrame analyze_paths returned
    tie,            \* the order the build's quicksort leaves equal scores in
    ui,             \* the elements written to the page, in order
    tableView,      \* rows handed to the ranked table
    chartView,      \* rows handed to the bar chart
    selected_path,  \* value of the selectbox
    processes,      \* selected_path.split(" -> ")
    i,              \* loop index of the graph build (rows done so far)
    G               \* the DiGraph

vars == <<pc, uploaded_file, analyzed, results, tie, ui, tableView, chartView,
          selected_path, processes, i, G>>

NoResults == [cols |-> {}, rows |-> <<>>]

Init ==
    /\ pc = "upload"
    /\ uploaded_file = "none"
    /\ analyzed = FALSE
    /\ results = NoResults
    /\ tie = <<>>
    /\ ui = <<>>
    /\ tableView = <<>>
    /\ chartView = <<>>
    /\ selected_path = None
    /\ processes = <<>>
    /\ i = 0
    /\ G = EmptyGraph

\* st.file_uploader; without a file: st.info and st.stop.
Upload ==
    /\ pc = "upload"
    /\ \E f \in {"none", "valid", "invalid"} :
        /\ uploaded_file' = f
        /\ IF f = "none"
           THEN /\ ui' = ui \o <<"info_upload">>
                /\ pc' = "stopped"
           ELSE /\ ui' = ui
                /\ pc' = "load"
    /\ UNCHANGED <<analyzed, results, tie, tableView, chartView, selected_path,
                   processes, i, G>>

LoadDataNoStop ==
    /\ pc = "load"
    /\ ui' = ui \o (IF uploaded_file = "valid" THEN <<"raw_preview">>
                                               ELSE <<"error_csv", "traceback">>)
    /\ pc' = "analyze"
    /\ UNCHANGED <<uploaded_file, analyzed, results, tie, tableView, chartView,
                   selected_path, processes, i, G>>

\* pd.read_csv in its try; on success the raw data preview.
LoadData ==
    /\ pc = "load"
    /\ IF uploaded_file = "valid"
       THEN /\ ui' = ui \o <<"raw_preview">>
            /\ pc' = "analyze"
       ELSE /\ ui' = ui \o <<"error_csv", "traceback">>
            /\ pc' = "stopped"
    /\ UNCHANGED <<uploaded_file, analyzed, results, tie, tableView, chartView,
                   selected_path, processes, i, G>>

AnalyzeNoStop ==
    /\ pc = "analyze"
    /\ analyzed' = TRUE
    /\ \E raises \in BOOLEAN, r \in ResultSets :
        /\ results' = r
        /\ tie' \in TieOrders(Len(r.rows))
        /\ ui' = ui \o (IF raises
                        THEN <<"running", "error_pipeline", "traceback", "success">>
                        ELSE <<"running", "success">>)
    /\ pc' = "table"
    /\ UNCHANGED <<uploaded_file, tableView, chartView, selected_path,
                   processes, i, G>>

\* analyze_paths(data) in its try; it raises or returns a DataFrame.
Analyze ==
    /\ pc = "analyze"
    /\ analyzed' = TRUE
    /\ \E raises \in BOOLEAN :
        IF raises
        THEN /\ ui' = ui \o <<"running", "error_pipeline", "traceback">>
             /\ pc' = "stopped"
             /\ UNCHANGED <<results, tie>>
        ELSE /\ \E r \in ResultSets :
                /\ results' = r
                /\ tie' \in TieOrders(Len(r.rows))
             /\ ui' = ui \o <<"running", "success">>
             /\ pc' = "table"
    /\ UNCHANGED <<uploaded_file, tableView, chartView, selected_path,
                   processes, i, G>>

\* The ranked table: sort_values outside any try, so a missing threat_score
\* column is an uncaught KeyError that ends the run.
ResultsTable ==
    /\ pc = "table"
    /\ IF "threat_score" \in results.cols
       THEN /\ tableView' = TableRows(results.rows, tie)
            /\ ui' = ui \o <<"table">>
            /\ pc' = "chart"
       ELSE /\ tableView' = tableView
            /\ ui' = ui \o <<"exception">>
            /\ pc' = "crashed"
    /\ UNCHANGED <<uploaded_file, analyzed, results, tie, chartView,
                   selected_path, processes, i, G>>

ChartNoTry ==
    /\ pc = "chart"
    /\ IF "threat_score" \notin results.cols \/ "path" \notin results.cols
       THEN /\ chartView' = chartView
            /\ ui' = ui \o <<"exception">>
            /\ pc' = "crashed"
       ELSE /\ chartView' = ChartRows(results.rows, tie)
            /\ ui' = ui \o <<"chart">>
            /\ pc' = "selector"
    /\ UNCHANGED <<uploaded_file, analyzed, results, tie, tableView,
                   selected_path, processes, i, G>>

\* The bar chart in its try with a bare except: sort_values, head(15),
\* set_index("path"), st.bar_chart.
Chart ==
    /\ pc = "chart"
    /\ \E chartRaises \in BOOLEAN :
        IF \/ "threat_score" \notin results.cols
           \/ "path" \notin results.cols
           \/ chartRaises
        THEN /\ chartView' = chartView
             /\ ui' = ui \o <<"chart_warning">>
        ELSE /\ chartView' = ChartRows(results.rows, tie)
             /\ ui' = ui \o <<"chart">>
    /\ pc' = "selector"
    /\ UNCHANGED <<uploaded_file, analyzed, results, tie, tableView,
                   selected_path, processes, i, G>>

\* results["path"].tolist()
PathOptions == [k \in 1..Len(results.rows) |-> results.rows[k].path]

\* The selectbox and the Render Graph button, or the notice of the else branch.
Selector ==
    /\ pc = "selector"
    /\ IF "path" \in results.cols
       THEN /\ selected_path' \in
                  (IF PathOptions = <<>> THEN {None} ELSE Range(PathOptions))
            /\ \E pressed \in BOOLEAN :
                /\ ui' = ui \o <<"selectbox", "button">>
                /\ pc' = IF pressed THEN "render" ELSE "footer"
       ELSE /\ selected_path' = selected_path
            /\ ui' = ui \o <<"info_nopath">>
            /\ pc' = "footer"
    /\ UNCHANGED <<uploaded_file, analyzed, results, tie, tableView, chartView,
                   processes, i, G>>

\* Head of the render try: the imports, G = nx.DiGraph(), the split.
RenderStart ==
    /\ pc = "render"
    /\ \E importFails \in BOOLEAN :
        IF importFails \/ selected_path = None
        THEN /\ ui' = ui \o <<"error_render", "traceback">>
             /\ pc' = "footer"
             /\ UNCHANGED <<processes, i, G>>
        ELSE /\ processes' = Split(selected_path)
             /\ G' = EmptyGraph
             /\ i' = 0
             /\ ui' = ui
             /\ pc' = "build"
    /\ UNCHANGED <<uploaded_file, analyzed, results, tie, tableView, chartView,
                   selected_path>>

\* One pass of the loop over enumerate(processes).
BuildStep ==
    /\ pc = "build"
    /\ i < Len(processes)
    /\ G' = IF i + 1 < Len(processes)
            THEN AddEdge(AddNode(G, processes[i + 1]),
                         processes[i + 1], processes[i + 2])
            ELSE AddNode(G, processes[i + 1])
    /\ i' = i + 1
    /\ UNCHANGED <<pc, uploaded_file, analyzed, results, tie, ui, tableView,
                   chartView, selected_path, processes>>

DrawUncaught ==
    /\ pc = "build"
    /\ i = Len(processes)
    /\ \E drawRaises \in BOOLEAN :
        /\ ui' = ui \o (IF drawRaises THEN <<"exception">> ELSE <<"graph_image">>)
        /\ pc' = IF drawRaises THEN "crashed" ELSE "footer"
    /\ UNCHANGED <<uploaded_file, analyzed, results, tie, tableView, chartView,
                   selected_path, processes, i, G>>

\* plt.subplots, spring_layout(seed=42), nx.draw, st.pyplot; any of them may
\* raise, which the except handler of the try reports.
Draw ==
    /\ pc = "build"
    /\ i = Len(processes)
    /\ \E drawRaises \in BOOLEAN :
        ui' = ui \o (IF drawRaises THEN <<"error_render", "traceback">>
                                   ELSE <<"graph_image">>)
    /\ pc' = "footer"
    /\ UNCHANGED <<uploaded_file, analyzed, results, tie, tableView, chartView,
                   selected_path, processes, i, G>>

\* st.markdown("---") and the closing line.
Footer ==
    /\ pc = "footer"
    /\ ui' = ui \o <<"footer">>
    /\ pc' = "done"
    /\ UNCHANGED <<uploaded_file, analyzed, results, tie, tableView, chartView,
                   selected_path, processes, i, G>>

Next ==
    \/ Upload
    \/ LoadData
    \/ Analyze
    \/ ResultsTable
    \/ Chart
    \/ Selector
    \/ RenderStart
    \/ BuildStep
    \/ Draw
    \/ Footer

Spec == Init /\ [][Next]_vars

\* ------------------------------------------------------------- claims
Shown(e) == e \in Range(ui)

\* Element e of the page is directly followed by element f.
Followed(e, f) ==
    \A k \in 1..Len(ui) : ui[k] = e => k < Len(ui) /\ ui[k + 1] = f

Min(a, b) == IF a < b THEN a ELSE b

\* The loop over the tokens has run to its end.
Built == processes # <<>> /\ i = Len(processes)

ConsecutivePairs(toks) == {<<toks[k], toks[k + 1]>> : k \in 1..(Len(toks) - 1)}

Contains(s, sub) ==
    \E k \in 1..Len(s) : k + Len(sub) - 1 <= Len(s) /\ SubSeq(s, k, k + Len(sub) - 1) = sub

\* A path the tokenizer of the specification rejects: some segment is empty
\* or whitespace only.
InvalidPath(p) == p # None /\ \E k \in 1..Len(Split(p)) : strip(Split(p)[k]) = <<>>

PathABC == Join(<<Str("A"), Str("B"), Str("C")>>)
PathAA == Join(<<Str("A"), Str("A")>>)
PathASpaceBB == Join(<<Str("A"), <<" ", "B">>, Str("B")>>)

\* C1 (as amended): once the ranked table is shown, its rows are the first
\* min(50, n) rows of a rearrangement of the input rows that is descending by
\* threat_score: each shown row is an input row, none twice, scores never
\* increase down the table, and no row left out scores higher than a row shown.
C1_RankedDescending ==
    Shown("table") =>
        LET n == Len(results.rows)
            v == tableView
            shownIdx == {v[k].index : k \in 1..Len(v)}
        IN /\ Len(v) = Min(n, TableN)
           /\ \A k \in 1..Len(v) :
                /\ v[k].index \in 1..n
                /\ v[k] = results.rows[v[k].index]
           /\ \A k, l \in 1..Len(v) :
                k < l => /\ v[k].index # v[l].index
                         /\ v[k].threat_score >= v[l].threat_score
           /\ \A a \in (1..n) \ shownIdx : \A k \in 1..Len(v) :
                results.rows[a].threat_score <= v[k].threat_score

\* C1 (as claimed): the ranked table is as above and, in addition, rows with
\* equal threat_score keep their input order (a stable sort).
C1_StableRanked ==
    /\ C1_RankedDescending
    /\ Shown("table") =>
        \A k, l \in 1..Len(tableView) :
            (k < l /\ tableView[k].threat_score = tableView[l].threat_score)
                => tableView[k].index < tableView[l].index

\* A truncated table in which two rows of equal score stand in the opposite
\* of their input order.
C1_Witness ==
    /\ Shown("table")
    /\ Len(results.rows) > TableN
    /\ Len(tableView) = TableN
    /\ \E k, l \in 1..Len(tableView) :
        /\ k < l
        /\ tableView[k].threat_score = tableView[l].threat_score
        /\ tableView[k].index > tableView[l].index

C3_GraphOfTokens ==
    /\ pc = "build" => ~Shown("error_render")
    /\ Built =>
        /\ Range(G.nodes) = Range(processes)
        /\ Len(G.nodes) = Cardinality(Range(processes))
        /\ Range(G.edges) = ConsecutivePairs(processes)
        /\ Len(G.edges) = Cardinality(ConsecutivePairs(processes))
        /\ Len(processes) = 1 => (Len(G.nodes) = 1 /\ G.edges = <<>>)
        /\ selected_path = PathABC =>
            /\ G.nodes = <<Str("A"), Str("B"), Str("C")>>
            /\ G.edges = <<<<Str("A"), Str("B")>>, <<Str("B"), Str("C")>>>>
        /\ selected_path = PathAA =>
            /\ G.nodes = <<Str("A")>>
            /\ G.edges = <<<<Str("A"), Str("A")>>>>

\* A path with a repeated identity and a repeated ordered pair, built and drawn.
C3_Witness ==
    /\ Built
    /\ Shown("graph_image")
    /\ Len(processes) = 3
    /\ Len(G.nodes) = 1
    /\ Len(G.edges) = 1

\* C4 (as claimed): no node with an empty identity is ever in the graph, and
\* for a selected path that is empty, whitespace only or has an empty segment
\* no graph image is shown.
C4_InvalidPathRejected ==
    /\ <<>> \notin Range(G.nodes)
    /\ InvalidPath(selected_path) => ~Shown("graph_image")

\* C5 (as claimed): a result table without a threat_score column does not end
\* the run at the ranked table.
C5_MissingScoreContinues ==
    (Shown("success") /\ "threat_score" \notin results.cols) =>
        /\ pc # "crashed"
        /\ ~Shown("exception")

\* C6: with a threat_score column and no path column the run never aborts;
\* the ranked table is shown, the chart step ends in its warning, the selector
\* step shows the notice, and no selection control, button or graph build
\* occurs.
C6_NoPathColumn ==
    (Shown("success") /\ results.cols = {"threat_score"}) =>
        /\ pc \notin {"crashed", "stopped", "render", "build"}
        /\ ~Shown("exception")
        /\ ~Shown("selectbox")
        /\ ~Shown("button")
        /\ ~Shown("chart")
        /\ ~Shown("graph_image")
        /\ processes = <<>>
        /\ G = EmptyGraph
        /\ pc \in {"chart", "selector", "footer", "done"} =>
            (Shown("table") /\ tableView = TableRows(results.rows, tie))
        /\ pc \in {"selector", "footer", "done"} => Shown("chart_warning")
        /\ pc \in {"footer", "done"} => Shown("info_nopath")
        /\ pc = "done" => ui[Len(ui)] = "footer"

\* A finished run over a non-empty table without a path column.
C6_Witness ==
    /\ pc = "done"
    /\ results.cols = {"threat_score"}
    /\ Len(results.rows) >= 1
    /\ Shown("info_nopath")

\* C7: when the pipeline call has raised, the error and its traceback are the
\* last things on the page, the run has stopped, and neither the success
\* notice nor the table, the chart, the selector or a graph exist.
C7_PipelineFailureStops ==
    Shown("error_pipeline") =>
        /\ pc = "stopped"
        /\ ui = <<"raw_preview", "running", "error_pipeline", "traceback">>
        /\ results = NoResults
        /\ tableView = <<>>
        /\ chartView = <<>>
        /\ selected_path = None
        /\ processes = <<>>
        /\ G = EmptyGraph

\* The pipeline has been called and has raised.
C7_Witness == analyzed /\ Shown("error_pipeline") /\ pc = "stopped"

\* C8: the pipeline is called only after a file that parsed and after the raw
\* preview; without a file the run stops at the upload notice, and with a file
\* that does not parse it stops at the error and its traceback, the pipeline
\* not called in either case.
C8_NoPipelineWithoutData ==
    /\ (analyzed \/ pc = "analyze") =>
        (uploaded_file = "valid" /\ Len(ui) >= 1 /\ ui[1] = "raw_preview")
    /\ (pc # "upload" /\ uploaded_file = "none") =>
        (pc = "stopped" /\ ui = <<"info_upload">> /\ ~analyzed)
    /\ (pc # "load" /\ uploaded_file = "invalid") =>
        (pc = "stopped" /\ ui = <<"error_csv", "traceback">> /\ ~analyzed)

\* A file that does not parse has been reported.
C8_Witness == uploaded_file = "invalid" /\ Shown("error_csv") /\ pc = "stopped"

\* C9: once the Render Graph button is on the page the run neither aborts nor
\* stops before the footer; a render error is directly followed by its
\* traceback, leaves the run at the footer or done, and leaves the ranked
\* table and the chart (or the chart's warning) as they were shown.
C9_RenderFailureContained ==
    /\ Shown("button") => pc \in {"render", "build", "footer", "done"}
    /\ Shown("error_render") =>
        /\ Followed("error_render", "traceback")
        /\ pc \in {"footer", "done"}
        /\ ~Shown("graph_image")
        /\ Shown("table")
        /\ tableView = TableRows(results.rows, tie)
        /\ Shown("chart") \/ Shown("chart_warning")
        /\ Shown("chart") => chartView = ChartRows(results.rows, tie)
        /\ pc = "done" => ui[Len(ui)] = "footer"

\* A run that ended after the drawing of a built graph failed.
C9_Witness ==
    /\ pc = "done"
    /\ Built
    /\ Shown("error_render")
    /\ Shown("chart")

\* C10 (as amended): the tokens are the delimiter-separated segments exactly
\* as they stand in the path: joined by the delimiter they give back the
\* path, none contains the delimiter, and every distinct token, whitespace
\* included, is a node of its own.
C10_TokensAreRawSegments ==
    Built =>
        /\ Join(processes) = selected_path
        /\ \A k \in 1..Len(processes) : ~Contains(processes[k], Delim)
        /\ Range(G.nodes) = Range(processes)
        /\ Len(G.nodes) = Cardinality(Range(processes))

\* C10 (as claimed): every token is trimmed of surrounding whitespace and is
\* not empty.
C10_TokensTrimmed ==
    Built =>
        \A k \in 1..Len(processes) :
            processes[k] = strip(processes[k]) /\ processes[k] # <<>>

\* "A ->  B -> B" built: " B" and "B" are two nodes.
C10_Witness ==
    /\ Built
    /\ selected_path = PathASpaceBB
    /\ G.nodes = <<Str("A"), <<" ", "B">>, Str("B")>>

====
